---- MODULE Spec2Model ----
(***************************************************************************)
(* LookAsideBalancer (internal/proxy/look_aside_balancer.go): the          *)
(* selection engine, the in-flight ledger, telemetry ingestion and the     *)
(* health prober, as a state machine.  Callers run SelectNode,             *)
(* CancelWorkload and UpdateCostMetrics concurrently with each other and   *)
(* with the prober; every access to one of the concurrent containers is a  *)
(* step of its own, so the interleavings the Go scheduler allows are the   *)
(* interleavings of this model.                                            *)
(*                                                                         *)
(* Time is in milliseconds, as time.Now().UnixMilli().                     *)
(***************************************************************************)
EXTENDS Integers, Sequences, FiniteSets, TLC

\* ------------------------------------------------------------- bounds

\* Operations (API calls, clock advances, environment changes) one
\* behaviour of Spec may start.
MaxOps == 3

\* The width of the model's int64, in bits: sums wrap around at it as the
\* program's wrap around at 64.
Int64Bits == 8

\* ------------------------------------------------- program constants

checkQueryNodeHealthInterval == 500
CostMetricsExpireTime == 1000
\* math.MaxFloat64: above every score the model's inputs produce.
MaxFloat64 == 1000000000
\* The sentinel SelectNode starts targetNode with, and returns on error.
NoTarget == -1

\* ------------------------------------------------------------- inputs

\* Query nodes: NodeID is an int64; -1 is one of its values.
Nodes == {-1, 1, 2}
\* Concurrent request-handling workers.  Workers are interchangeable, so a
\* call starts on the first idle one (MayStart).
Procs == {1, 2}
\* Request costs (NQ).
Costs == {1, 2}
\* Candidate lists: every list over Nodes of length 0, 1 and 2
\* (duplicates included).
NodeLists == {<<>>} \cup {<<a>> : a \in Nodes}
               \cup {<<a, b>> : a \in Nodes, b \in Nodes}
\* internalpb.CostAggregation values query nodes report.
Aggs == { [isNil |-> FALSE, ResponseTime |-> 50, ServiceTime |-> 10, TotalNQ |-> 0],
          [isNil |-> FALSE, ResponseTime |-> 20, ServiceTime |-> 5,  TotalNQ |-> 0] }
\* What a health probe of a node meets: GetClient fails, GetComponentStates
\* fails, the state code is not Healthy, or the node is healthy.
HealthStates == {"Healthy", "NoClient", "RpcError", "Abnormal"}
\* How long the clock moves in one step: one ticker period, or long enough
\* for telemetry written before it to expire.
Delays == {checkQueryNodeHealthInterval,
           checkQueryNodeHealthInterval + CostMetricsExpireTime}

\* Absent map entries.
\* The nil *CostAggregation.
Nil == [isNil |-> TRUE, ResponseTime |-> 0, ServiceTime |-> 0, TotalNQ |-> 0]
NoCtr == 0
NoTs == -1

\* The clock starts after the epoch and is kept inside a window: once it
\* would pass Horizon, every stored time is moved back instead.  A stored
\* time clamped at Oldest is older than every threshold, as it was before.
StartTime == checkQueryNodeHealthInterval
Horizon == StartTime + checkQueryNodeHealthInterval + CostMetricsExpireTime
Oldest == StartTime

VARIABLES
  metricsMap,            \* node -> CostAggregation or Nil
  metricsUpdateTs,       \* node -> last update time or NoTs
  executingTaskTotalNQ,  \* node -> the counter in the map: NoCtr, or the
                         \*   worker that allocated it (Insert replaces it)
  ctrVal,                \* <<node, allocating worker>> -> value of the
                         \*   *atomic.Int64 that worker allocated for node
  unreachableQueryNodes, \* the Unreachability Set
  closeCh,               \* TRUE once closed
  closePc,               \* Close: "open", "waiting" (in wg.Wait), "closed"
  proberPc,              \* "none", "select", "await", "exit"
  probes,                \* node -> state of this tick's probe of it
  tickPending,           \* a tick waits in ticker.C
  now,                   \* the clock
  health,                \* environment: what a probe of a node would meet
  frame,                 \* worker -> locals of the call it is in
  ops,                   \* operations started
  stayed,                \* worker -> nodes in the Unreachability Set ever
                         \*   since its call started
  skipped,               \* worker -> candidates its call has skipped
  dispatched,            \* node -> sum of the costs of returned selections
  outstanding,           \* node -> cost -> returned selections not cancelled
  cancelRan,             \* a CancelWorkload has been called
  balanced,              \* every CancelWorkload so far matched a selection
  lastTickUnhealthy,     \* nodes whose probe in the last tick was unhealthy
  recoveredAt            \* node -> time its health last became Healthy

vars == <<metricsMap, metricsUpdateTs, executingTaskTotalNQ, ctrVal,
          unreachableQueryNodes, closeCh, closePc, proberPc, probes,
          tickPending, now, health, frame, ops, stayed, skipped,
          dispatched, outstanding, cancelRan, balanced, lastTickUnhealthy,
          recoveredAt>>

balancerVars == <<metricsMap, metricsUpdateTs, executingTaskTotalNQ, ctrVal,
                  unreachableQueryNodes>>
proberVars == <<closeCh, closePc, proberPc, probes, tickPending,
                lastTickUnhealthy>>
ledgerGhost == <<dispatched, outstanding, cancelRan, balanced>>
envVars == <<now, health, recoveredAt>>

IdleFrame == [op |-> "idle", pc |-> "idle", nodes |-> <<>>, cost |-> 0,
              idx |-> 0, node |-> NoTarget, targetNode |-> NoTarget,
              targetScore |-> MaxFloat64, lcost |-> Nil, lctr |-> NoCtr,
              lnq |-> 0, agg |-> Nil]

\* ------------------------------------------------------------ helpers

Cube(x) == x * x * x

\* The largest int64, and an int64 sum as two's complement arithmetic
\* leaves it.
MaxInt64 == 2^(Int64Bits - 1) - 1
Wrap(x) == ((x + MaxInt64 + 1) % (2 * (MaxInt64 + 1))) - (MaxInt64 + 1)

\* The value SelectNode's executingNQ.Load() would read for node n from the
\* counter that is in the map now (0 for the counter it would create).
InFlight(n) ==
  IF executingTaskTotalNQ[n] = NoCtr THEN 0
  ELSE ctrVal[<<n, executingTaskTotalNQ[n]>>]

isNodeCostMetricsTooOld(node) ==
  LET lastUpdateTs == metricsUpdateTs[node] IN
  IF lastUpdateTs = NoTs \/ lastUpdateTs = 0 THEN FALSE
  ELSE now - lastUpdateTs > CostMetricsExpireTime

\* calculateScore with a workload computed from cost.TotalNQ alone: the
\* in-flight counter is left out of line 155.
calculateScore_IgnoresInFlight(node, cost, executingNQ) ==
  IF cost = Nil \/ cost.ResponseTime = 0 \/ cost.ServiceTime = 0
  THEN Cube(Wrap(1 + executingNQ))
  ELSE IF executingNQ = 0 /\ cost.TotalNQ = 0 /\ isNodeCostMetricsTooOld(node)
  THEN 0
  ELSE LET executeSpeed == cost.ResponseTime - cost.ServiceTime
           workload == Cube(Wrap(1 + cost.TotalNQ)) * cost.ServiceTime
       IN  IF workload < 0 THEN MaxFloat64 ELSE executeSpeed + workload

\* calculateScore with the idle test of line 150 before the zero test of
\* line 143.
calculateScore_IdleFirst(node, cost, executingNQ) ==
  IF cost # Nil /\ executingNQ = 0 /\ cost.TotalNQ = 0
       /\ isNodeCostMetricsTooOld(node)
  THEN 0
  ELSE IF cost = Nil \/ cost.ResponseTime = 0 \/ cost.ServiceTime = 0
  THEN Cube(Wrap(1 + executingNQ))
  ELSE LET executeSpeed == cost.ResponseTime - cost.ServiceTime
           workload == Cube(Wrap(1 + cost.TotalNQ + executingNQ))
                         * cost.ServiceTime
       IN  IF workload < 0 THEN MaxFloat64 ELSE executeSpeed + workload

calculateScore(node, cost, executingNQ) ==
  IF cost = Nil \/ cost.ResponseTime = 0 \/ cost.ServiceTime = 0
  THEN Cube(Wrap(1 + executingNQ))
  ELSE IF executingNQ = 0 /\ cost.TotalNQ = 0 /\ isNodeCostMetricsTooOld(node)
  THEN 0
  ELSE LET executeSpeed == cost.ResponseTime - cost.ServiceTime
           workload == Cube(Wrap(1 + cost.TotalNQ + executingNQ))
                         * cost.ServiceTime
       IN  IF workload < 0 THEN MaxFloat64 ELSE executeSpeed + workload

Init ==
  /\ metricsMap = [n \in Nodes |-> Nil]
  /\ metricsUpdateTs = [n \in Nodes |-> NoTs]
  /\ executingTaskTotalNQ = [n \in Nodes |-> NoCtr]
  /\ ctrVal = [c \in Nodes \X Procs |-> 0]
  /\ unreachableQueryNodes = {}
  /\ closeCh = FALSE
  /\ closePc = "open"
  /\ proberPc = "none"
  /\ probes = [n \in Nodes |-> "idle"]
  /\ tickPending = FALSE
  /\ now = StartTime
  /\ health = [n \in Nodes |-> "Healthy"]
  /\ frame = [p \in Procs |-> IdleFrame]
  /\ ops = 0
  /\ stayed = [p \in Procs |-> {}]
  /\ skipped = [p \in Procs |-> {}]
  /\ dispatched = [n \in Nodes |-> 0]
  /\ outstanding = [n \in Nodes |-> [c \in Costs |-> 0]]
  /\ cancelRan = FALSE
  /\ balanced = TRUE
  /\ lastTickUnhealthy = {}
  /\ recoveredAt = [n \in Nodes |-> StartTime]

\* A call starts on worker p: p is idle and every worker before it is busy.
MayStart(p) ==
  /\ frame[p].pc = "idle"
  /\ \A q \in Procs : q < p => frame[q].pc # "idle"

\* ------------------------------------------------------- SelectNode

\* Lines 87-90: the call starts; targetNode := -1, targetScore := MaxFloat64.
SelectNodeStart(p, availableNodes, cost) ==
  /\ MayStart(p)
  /\ frame' = [frame EXCEPT ![p] =
       [IdleFrame EXCEPT !.op = "select", !.pc = "loop",
                         !.nodes = availableNodes, !.cost = cost, !.idx = 1]]
  /\ stayed' = [stayed EXCEPT ![p] = unreachableQueryNodes]
  /\ skipped' = [skipped EXCEPT ![p] = {}]
  /\ UNCHANGED <<balancerVars, proberVars, ledgerGhost, envVars>>

\* Lines 114-116: targetNode is still -1 after the loop.
SelectNodeFail(p) ==
  /\ frame[p].pc = "loop"
  /\ frame[p].idx > Len(frame[p].nodes)
  /\ frame[p].targetNode = NoTarget
  /\ frame' = [frame EXCEPT ![p] = IdleFrame]
  /\ stayed' = [stayed EXCEPT ![p] = {}]
  /\ skipped' = [skipped EXCEPT ![p] = {}]
  /\ UNCHANGED <<balancerVars, proberVars, ledgerGhost, envVars, ops>>

\* Line 119: after the loop, Get the counter of targetNode from the map.
SelectNodeGetTarget(p) ==
  /\ frame[p].pc = "loop"
  /\ frame[p].idx > Len(frame[p].nodes)
  /\ frame[p].targetNode # NoTarget
  /\ frame' = [frame EXCEPT ![p].pc = "add",
                            ![p].lctr = executingTaskTotalNQ[frame[p].targetNode]]
  /\ UNCHANGED <<balancerVars, proberVars, ledgerGhost, envVars, ops,
                 stayed, skipped>>

\* SelectNodeSkip with the counter allocated (lines 99-103) before the test
\* of line 92: a skipped candidate gets a counter.
SelectNodeSkip_AllocatesCounter(p) ==
  /\ frame[p].pc = "loop"
  /\ frame[p].idx <= Len(frame[p].nodes)
  /\ frame[p].nodes[frame[p].idx] \in unreachableQueryNodes
  /\ frame' = [frame EXCEPT ![p].idx = @ + 1]
  /\ skipped' = [skipped EXCEPT ![p] = @ \cup {frame[p].nodes[frame[p].idx]}]
  /\ executingTaskTotalNQ' =
       [executingTaskTotalNQ EXCEPT ![frame[p].nodes[frame[p].idx]] =
          IF @ = NoCtr THEN p ELSE @]
  /\ UNCHANGED <<metricsMap, metricsUpdateTs, ctrVal, unreachableQueryNodes,
                 proberVars, ledgerGhost, envVars, ops, stayed>>

\* Lines 91-96: the next candidate is in the Unreachability Set: skip it.
SelectNodeSkip(p) ==
  /\ frame[p].pc = "loop"
  /\ frame[p].idx <= Len(frame[p].nodes)
  /\ frame[p].nodes[frame[p].idx] \in unreachableQueryNodes
  /\ frame' = [frame EXCEPT ![p].idx = @ + 1]
  /\ skipped' = [skipped EXCEPT ![p] = @ \cup {frame[p].nodes[frame[p].idx]}]
  /\ UNCHANGED <<balancerVars, proberVars, ledgerGhost, envVars, ops,
                 stayed>>

\* SelectNodeContain without the test of line 92: every candidate is scored.
SelectNodeContain_NoTest(p) ==
  /\ frame[p].pc = "loop"
  /\ frame[p].idx <= Len(frame[p].nodes)
  /\ frame' = [frame EXCEPT ![p].pc = "getcost",
                            ![p].node = frame[p].nodes[frame[p].idx]]
  /\ UNCHANGED <<balancerVars, proberVars, ledgerGhost, envVars, ops,
                 stayed, skipped>>

\* Lines 91-92: the next candidate is not in the set: go on to score it.
SelectNodeContain(p) ==
  /\ frame[p].pc = "loop"
  /\ frame[p].idx <= Len(frame[p].nodes)
  /\ frame[p].nodes[frame[p].idx] \notin unreachableQueryNodes
  /\ frame' = [frame EXCEPT ![p].pc = "getcost",
                            ![p].node = frame[p].nodes[frame[p].idx]]
  /\ UNCHANGED <<balancerVars, proberVars, ledgerGhost, envVars, ops,
                 stayed, skipped>>

\* Line 98: Get the candidate's cached aggregation (nil if absent).
SelectNodeGetCost(p) ==
  /\ frame[p].pc = "getcost"
  /\ frame' = [frame EXCEPT ![p].pc = "getctr",
                            ![p].lcost = metricsMap[frame[p].node]]
  /\ UNCHANGED <<balancerVars, proberVars, ledgerGhost, envVars, ops,
                 stayed, skipped>>

\* Lines 99-101: Get the candidate's counter; allocate one if there is none.
SelectNodeGetCounter(p) ==
  /\ frame[p].pc = "getctr"
  /\ LET ok == executingTaskTotalNQ[frame[p].node] # NoCtr IN
     frame' = [frame EXCEPT
       ![p].pc = IF ok THEN "load" ELSE "insert",
       ![p].lctr = IF ok THEN executingTaskTotalNQ[frame[p].node] ELSE p]
  /\ UNCHANGED <<balancerVars, proberVars, ledgerGhost, envVars, ops,
                 stayed, skipped>>

\* Line 102: Insert the counter just allocated, replacing what is there.
SelectNodeInsertCounter(p) ==
  /\ frame[p].pc = "insert"
  /\ executingTaskTotalNQ' =
       [executingTaskTotalNQ EXCEPT ![frame[p].node] = frame[p].lctr]
  /\ frame' = [frame EXCEPT ![p].pc = "load"]
  /\ UNCHANGED <<metricsMap, metricsUpdateTs, ctrVal, unreachableQueryNodes,
                 proberVars, ledgerGhost, envVars, ops, stayed, skipped>>

\* Line 105: executingNQ.Load().
SelectNodeLoad(p) ==
  /\ frame[p].pc = "load"
  /\ frame' = [frame EXCEPT ![p].pc = "score",
                            ![p].lnq = ctrVal[<<frame[p].node, frame[p].lctr>>]]
  /\ UNCHANGED <<balancerVars, proberVars, ledgerGhost, envVars, ops,
                 stayed, skipped>>

\* Lines 105-111: score the candidate (calculateScore reads the clock and
\* metricsUpdateTs) and keep it if it is the first or strictly better.
SelectNodeScore(p) ==
  /\ frame[p].pc = "score"
  /\ LET node == frame[p].node
         score == calculateScore(node, frame[p].lcost, frame[p].lnq)
         better == frame[p].targetNode = NoTarget \/ score < frame[p].targetScore
     IN frame' = [frame EXCEPT
          ![p].pc = "loop",
          ![p].idx = @ + 1,
          ![p].targetScore = IF better THEN score ELSE @,
          ![p].targetNode = IF better THEN node ELSE @]
  /\ UNCHANGED <<balancerVars, proberVars, ledgerGhost, envVars, ops,
                 stayed, skipped>>

\* Lines 120-122: Add cost to the counter got at line 119 and return.
SelectNodeAdd(p) ==
  /\ frame[p].pc = "add"
  /\ LET n == frame[p].targetNode
         c == frame[p].cost
     IN /\ ctrVal' = [ctrVal EXCEPT ![<<n, frame[p].lctr>>] = @ + c]
        /\ dispatched' = [dispatched EXCEPT ![n] = @ + c]
        /\ outstanding' = [outstanding EXCEPT ![n][c] = @ + 1]
  /\ frame' = [frame EXCEPT ![p] = IdleFrame]
  /\ stayed' = [stayed EXCEPT ![p] = {}]
  /\ skipped' = [skipped EXCEPT ![p] = {}]
  /\ UNCHANGED <<metricsMap, metricsUpdateTs, executingTaskTotalNQ,
                 unreachableQueryNodes, proberVars, cancelRan, balanced,
                 envVars, ops>>

\* --------------------------------------------------- CancelWorkload

\* CancelWorkloadStart with a counter created when there is none (as
\* SelectNode does at lines 99-103), from which Sub then subtracts.
CancelWorkloadStart_CreatesCounter(p, node, nq) ==
  /\ MayStart(p)
  /\ LET ok == executingTaskTotalNQ[node] # NoCtr
         matched == outstanding[node][nq] > 0
     IN /\ frame' = [frame EXCEPT ![p] =
             [IdleFrame EXCEPT !.op = "cancel", !.pc = "sub",
                !.node = node, !.cost = nq,
                !.lctr = IF ok THEN executingTaskTotalNQ[node] ELSE p]]
        /\ executingTaskTotalNQ' =
             IF ok THEN executingTaskTotalNQ
             ELSE [executingTaskTotalNQ EXCEPT ![node] = p]
        /\ cancelRan' = TRUE
        /\ balanced' = (balanced /\ matched)
        /\ outstanding' = IF matched
                          THEN [outstanding EXCEPT ![node][nq] = @ - 1]
                          ELSE outstanding
  /\ UNCHANGED <<metricsMap, metricsUpdateTs, ctrVal, unreachableQueryNodes,
                 proberVars, dispatched, envVars, stayed, skipped>>

\* Line 127-128: Get the node's counter; return if there is none.
CancelWorkloadStart(p, node, nq) ==
  /\ MayStart(p)
  /\ LET ok == executingTaskTotalNQ[node] # NoCtr
         matched == outstanding[node][nq] > 0
     IN /\ frame' = [frame EXCEPT ![p] =
             IF ok THEN [IdleFrame EXCEPT !.op = "cancel", !.pc = "sub",
                           !.node = node, !.cost = nq,
                           !.lctr = executingTaskTotalNQ[node]]
             ELSE IdleFrame]
        /\ cancelRan' = TRUE
        /\ balanced' = (balanced /\ matched)
        /\ outstanding' = IF matched
                          THEN [outstanding EXCEPT ![node][nq] = @ - 1]
                          ELSE outstanding
  /\ UNCHANGED <<balancerVars, proberVars, dispatched, envVars,
                 stayed, skipped>>

\* Line 129: Sub nq from the counter.
CancelWorkloadSub(p) ==
  /\ frame[p].pc = "sub"
  /\ ctrVal' = [ctrVal EXCEPT ![<<frame[p].node, frame[p].lctr>>] =
                  @ - frame[p].cost]
  /\ frame' = [frame EXCEPT ![p] = IdleFrame]
  /\ UNCHANGED <<metricsMap, metricsUpdateTs, executingTaskTotalNQ,
                 unreachableQueryNodes, proberVars, ledgerGhost, envVars,
                 ops, stayed, skipped>>

\* ------------------------------------------------ UpdateCostMetrics

\* UpdateCostMetricsStart with an insert-if-absent in place of the Insert of
\* line 136: an aggregation already cached is kept.
UpdateCostMetricsStart_KeepsCached(p, node, cost) ==
  /\ MayStart(p)
  /\ metricsMap' = IF metricsMap[node] = Nil
                   THEN [metricsMap EXCEPT ![node] = cost]
                   ELSE metricsMap
  /\ frame' = [frame EXCEPT ![p] =
       [IdleFrame EXCEPT !.op = "update", !.pc = "ts", !.node = node,
                         !.agg = cost]]
  /\ UNCHANGED <<metricsUpdateTs, executingTaskTotalNQ, ctrVal,
                 unreachableQueryNodes, proberVars, ledgerGhost, envVars,
                 stayed, skipped>>

\* Line 136: cache the aggregation.
UpdateCostMetricsStart(p, node, cost) ==
  /\ MayStart(p)
  /\ metricsMap' = [metricsMap EXCEPT ![node] = cost]
  /\ frame' = [frame EXCEPT ![p] =
       [IdleFrame EXCEPT !.op = "update", !.pc = "ts", !.node = node,
                         !.agg = cost]]
  /\ UNCHANGED <<metricsUpdateTs, executingTaskTotalNQ, ctrVal,
                 unreachableQueryNodes, proberVars, ledgerGhost, envVars,
                 stayed, skipped>>

\* UpdateCostMetricsTs that also takes the node out of the Unreachability
\* Set: fresh telemetry counted as proof of health.
UpdateCostMetricsTs_MarksReachable(p) ==
  /\ frame[p].pc = "ts"
  /\ metricsUpdateTs' = [metricsUpdateTs EXCEPT ![frame[p].node] = now]
  /\ unreachableQueryNodes' = unreachableQueryNodes \ {frame[p].node}
  /\ frame' = [frame EXCEPT ![p] = IdleFrame]
  /\ UNCHANGED <<metricsMap, executingTaskTotalNQ, ctrVal,
                 proberVars, ledgerGhost, envVars,
                 ops, stayed, skipped>>

\* Line 137: set the last-update time to now.
UpdateCostMetricsTs(p) ==
  /\ frame[p].pc = "ts"
  /\ metricsUpdateTs' = [metricsUpdateTs EXCEPT ![frame[p].node] = now]
  /\ frame' = [frame EXCEPT ![p] = IdleFrame]
  /\ UNCHANGED <<metricsMap, executingTaskTotalNQ, ctrVal,
                 unreachableQueryNodes, proberVars, ledgerGhost, envVars,
                 ops, stayed, skipped>>

\* ------------------------------------------------- Start and Close

\* Lines 75-78: wg.Add(1) and spawn the prober, which creates its ticker.
Start ==
  /\ proberPc = "none"
  /\ proberPc' = "select"
  /\ UNCHANGED <<balancerVars, closeCh, closePc, probes, tickPending,
                 lastTickUnhealthy, ledgerGhost, envVars, frame,
                 stayed, skipped>>

\* Lines 80-82: inside closeOnce.Do, close(closeCh).
CloseStart ==
  /\ closePc = "open"
  /\ closeCh' = TRUE
  /\ closePc' = "waiting"
  /\ UNCHANGED <<balancerVars, proberPc, probes, tickPending,
                 lastTickUnhealthy, ledgerGhost, envVars, frame,
                 stayed, skipped>>

\* Line 83: wg.Wait() returns once no prober is running.
CloseWait ==
  /\ closePc = "waiting"
  /\ proberPc \in {"none", "exit"}
  /\ closePc' = "closed"
  /\ UNCHANGED <<balancerVars, closeCh, proberPc, probes, tickPending,
                 lastTickUnhealthy, ledgerGhost, envVars, frame, ops,
                 stayed, skipped>>

\* Close, called by worker p.  closePc is the state of closeOnce: "open"
\* (Do has not run), "waiting" (a caller is inside Do, in wg.Wait),
\* "closed" (done).

\* Line 80: worker p calls Close.
CloseEnter(p) ==
  /\ MayStart(p)
  /\ frame' = [frame EXCEPT ![p] =
       [IdleFrame EXCEPT !.op = "close", !.pc = "once"]]
  /\ UNCHANGED <<balancerVars, proberVars, ledgerGhost, envVars,
                 stayed, skipped>>

\* Lines 81-82: closeOnce.Do.  The first caller runs the function and
\* closes closeCh (closing a closed channel panics); a caller that finds Do
\* done returns; one that finds a caller inside Do waits for it.
CloseOnceDo(p) ==
  /\ frame[p].pc = "once"
  /\ closePc # "waiting"
  /\ IF closePc = "closed"
     THEN /\ frame' = [frame EXCEPT ![p] = IdleFrame]
          /\ UNCHANGED <<closeCh, closePc>>
     ELSE IF closeCh
     THEN /\ frame' = [frame EXCEPT ![p].pc = "panic"]
          /\ UNCHANGED <<closeCh, closePc>>
     ELSE /\ closeCh' = TRUE
          /\ closePc' = "waiting"
          /\ frame' = [frame EXCEPT ![p].pc = "wgwait"]
  /\ UNCHANGED <<balancerVars, proberPc, probes, tickPending,
                 lastTickUnhealthy, ledgerGhost, envVars, ops,
                 stayed, skipped>>

\* CloseWgWait without the wg.Wait() of line 83: Close returns at once.
CloseWgWait_NoWait(p) ==
  /\ frame[p].pc = "wgwait"
  /\ closePc' = "closed"
  /\ frame' = [frame EXCEPT ![p] = IdleFrame]
  /\ UNCHANGED <<balancerVars, closeCh, proberPc, probes, tickPending,
                 lastTickUnhealthy, ledgerGhost, envVars, ops,
                 stayed, skipped>>

\* Lines 83-85: wg.Wait() returns once no prober is running; Do is done and
\* Close returns.
CloseWgWait(p) ==
  /\ frame[p].pc = "wgwait"
  /\ proberPc \in {"none", "exit"}
  /\ closePc' = "closed"
  /\ frame' = [frame EXCEPT ![p] = IdleFrame]
  /\ UNCHANGED <<balancerVars, closeCh, proberPc, probes, tickPending,
                 lastTickUnhealthy, ledgerGhost, envVars, ops,
                 stayed, skipped>>

\* ------------------------------------------ checkQueryNodeHealthLoop

\* Lines 183-185: the select takes closeCh; the loop exits (wg.Done).
ProberExit ==
  /\ proberPc = "select"
  /\ closeCh
  /\ proberPc' = "exit"
  /\ tickPending' = FALSE
  /\ UNCHANGED <<balancerVars, closeCh, closePc, probes, lastTickUnhealthy,
                 ledgerGhost, envVars, frame, ops, stayed, skipped>>

\* NeedsProbe over every node rather than over the entries of
\* metricsUpdateTs: a node without an entry counts as last updated at 0.
NeedsProbe_EveryNode(node, tickNow) ==
  LET lastUpdateTs == IF metricsUpdateTs[node] = NoTs THEN 0
                      ELSE metricsUpdateTs[node]
  IN  tickNow - lastUpdateTs > checkQueryNodeHealthInterval

\* Line 191: the node's telemetry is older than the health-check interval.
NeedsProbe(node, tickNow) ==
  /\ metricsUpdateTs[node] # NoTs
  /\ tickNow - metricsUpdateTs[node] > checkQueryNodeHealthInterval

\* Lines 187-235: the select takes a tick; Range over metricsUpdateTs
\* submits a probe for every stale node.
ProberTick ==
  /\ proberPc = "select"
  /\ tickPending
  /\ tickPending' = FALSE
  /\ probes' = [n \in Nodes |-> IF NeedsProbe(n, now) THEN "run" ELSE "idle"]
  /\ proberPc' = "await"
  /\ lastTickUnhealthy' = {}
  /\ UNCHANGED <<balancerVars, closeCh, closePc, ledgerGhost, envVars,
                 frame, ops, stayed, skipped>>

\* ProbeUnhealthy without the setUnreachable() of line 218: a node whose
\* state code is not Healthy is logged and left reachable.
ProbeUnhealthy_IgnoresStateCode(node, h) ==
  /\ probes[node] = "run"
  /\ h # "Healthy"
  /\ unreachableQueryNodes' =
       IF h = "Abnormal" THEN unreachableQueryNodes
       ELSE unreachableQueryNodes \cup {node}
  /\ probes' = [probes EXCEPT ![node] = "unhealthy"]
  /\ UNCHANGED <<metricsMap, metricsUpdateTs, executingTaskTotalNQ, ctrVal,
                 closeCh, closePc, proberPc, tickPending, lastTickUnhealthy,
                 ledgerGhost, envVars, frame, ops, stayed, skipped>>

\* Lines 201-222: the probe of node meets h, which is not healthy:
\* setUnreachable().
ProbeUnhealthy(node, h) ==
  /\ probes[node] = "run"
  /\ h # "Healthy"
  /\ unreachableQueryNodes' = unreachableQueryNodes \cup {node}
  /\ probes' = [probes EXCEPT ![node] = "unhealthy"]
  /\ UNCHANGED <<metricsMap, metricsUpdateTs, executingTaskTotalNQ, ctrVal,
                 closeCh, closePc, proberPc, tickPending, lastTickUnhealthy,
                 ledgerGhost, envVars, frame, ops, stayed, skipped>>

\* Lines 201-225: the probe of node meets a healthy node: refresh its
\* last-update time.
ProbeHealthyTs(node, h) ==
  /\ probes[node] = "run"
  /\ h = "Healthy"
  /\ metricsUpdateTs' = [metricsUpdateTs EXCEPT ![node] = now]
  /\ probes' = [probes EXCEPT ![node] = "remove"]
  /\ UNCHANGED <<metricsMap, executingTaskTotalNQ, ctrVal,
                 unreachableQueryNodes, closeCh, closePc, proberPc,
                 tickPending, lastTickUnhealthy, ledgerGhost, envVars,
                 frame, ops, stayed, skipped>>

\* ProbeTryRemove without the TryRemove of line 226: a node found healthy
\* stays in the Unreachability Set.
ProbeTryRemove_Keeps(node) ==
  /\ probes[node] = "remove"
  /\ probes' = [probes EXCEPT ![node] = "healthy"]
  /\ UNCHANGED <<metricsMap, metricsUpdateTs, executingTaskTotalNQ, ctrVal,
                 unreachableQueryNodes, closeCh, closePc, proberPc,
                 tickPending, lastTickUnhealthy, ledgerGhost, envVars, frame,
                 ops, stayed, skipped>>

\* Lines 226-230: TryRemove the node from the Unreachability Set.
ProbeTryRemove(node) ==
  /\ probes[node] = "remove"
  /\ unreachableQueryNodes' = unreachableQueryNodes \ {node}
  /\ probes' = [probes EXCEPT ![node] = "healthy"]
  /\ stayed' = [p \in Procs |-> stayed[p] \ {node}]
  /\ UNCHANGED <<metricsMap, metricsUpdateTs, executingTaskTotalNQ, ctrVal,
                 closeCh, closePc, proberPc, tickPending, lastTickUnhealthy,
                 ledgerGhost, envVars, frame, ops, skipped>>

\* AwaitAll without the conc.AwaitAll of line 236: the loop goes back to
\* its select while probes of the tick are still running.
AwaitAll_NoWait ==
  /\ proberPc = "await"
  /\ proberPc' = "select"
  /\ lastTickUnhealthy' = {n \in Nodes : probes[n] = "unhealthy"}
  /\ probes' = [n \in Nodes |->
                  IF probes[n] \in {"run", "remove"} THEN probes[n]
                  ELSE "idle"]
  /\ UNCHANGED <<balancerVars, closeCh, closePc, tickPending, ledgerGhost,
                 envVars, frame, ops, stayed, skipped>>

\* Line 236: conc.AwaitAll returns when every probe of the tick is done.
AwaitAll ==
  /\ proberPc = "await"
  /\ \A n \in Nodes : probes[n] \in {"idle", "unhealthy", "healthy"}
  /\ proberPc' = "select"
  /\ lastTickUnhealthy' = {n \in Nodes : probes[n] = "unhealthy"}
  /\ probes' = [n \in Nodes |-> "idle"]
  /\ UNCHANGED <<balancerVars, closeCh, closePc, tickPending, ledgerGhost,
                 envVars, frame, ops, stayed, skipped>>

\* ------------------------------------------------------ environment

MaxOf(a, b) == IF a >= b THEN a ELSE b

\* A stored time, moved back by shift (absent stays absent).
Rebase(t, shift) == IF t = NoTs THEN NoTs ELSE MaxOf(t - shift, Oldest)

\* Time passes by d; the ticker (if the prober runs) leaves a tick in its
\* channel, which holds one.
AdvanceClock(d) ==
  /\ LET shift == MaxOf(now + d - Horizon, 0) IN
     /\ now' = now + d - shift
     /\ metricsUpdateTs' = [n \in Nodes |-> Rebase(metricsUpdateTs[n], shift)]
     /\ recoveredAt' = [n \in Nodes |-> Rebase(recoveredAt[n], shift)]
  /\ tickPending' = (tickPending \/ proberPc \in {"select", "await"})
  /\ UNCHANGED <<metricsMap, executingTaskTotalNQ, ctrVal,
                 unreachableQueryNodes, closeCh, closePc, proberPc, probes,
                 lastTickUnhealthy, ledgerGhost, health, frame,
                 stayed, skipped>>

\* The environment: what a probe of node meets from now on.
SetHealth(node, h) ==
  /\ health[node] # h
  /\ health' = [health EXCEPT ![node] = h]
  /\ recoveredAt' = IF h = "Healthy"
                    THEN [recoveredAt EXCEPT ![node] = now]
                    ELSE recoveredAt
  /\ UNCHANGED <<balancerVars, proberVars, ledgerGhost, now, frame,
                 stayed, skipped>>

\* --------------------------------------------------- specifications

\* A probe, whatever the node's health is at that moment.
Probe(node) ==
  \E h \in HealthStates : ProbeUnhealthy(node, h) \/ ProbeHealthyTs(node, h)

\* A call starts on one of the workers P.
CallStart(P) ==
  \/ \E p \in P, l \in NodeLists, c \in Costs : SelectNodeStart(p, l, c)
  \/ \E p \in P, n \in Nodes, c \in Costs : CancelWorkloadStart(p, n, c)
  \/ \E p \in P, n \in Nodes, a \in Aggs : UpdateCostMetricsStart(p, n, a)

\* The steps of calls in progress.
CallStep(p) ==
  \/ SelectNodeFail(p)
  \/ SelectNodeGetTarget(p)
  \/ SelectNodeSkip(p)
  \/ SelectNodeContain(p)
  \/ SelectNodeGetCost(p)
  \/ SelectNodeGetCounter(p)
  \/ SelectNodeInsertCounter(p)
  \/ SelectNodeLoad(p)
  \/ SelectNodeScore(p)
  \/ SelectNodeAdd(p)
  \/ CancelWorkloadSub(p)
  \/ UpdateCostMetricsTs(p)

ProberStep ==
  \/ ProberTick
  \/ ProberExit
  \/ AwaitAll
  \/ \E n \in Nodes : ProbeTryRemove(n)

\* Spec: one worker's calls, the clock and Close, concurrent with the
\* prober and its probes.
Next ==
  \/ /\ ops < MaxOps
     /\ ops' = ops + 1
     /\ \/ CallStart({1})
        \/ \E d \in Delays : AdvanceClock(d)
        \/ CloseStart
  \/ Start /\ UNCHANGED ops
  \/ CloseWait
  \/ ProberStep
  \/ \E n \in Nodes : Probe(n)
  \/ \E p \in Procs : CallStep(p)

Spec == Init /\ [][Next]_vars

\* LedgerSpec: the calls of all workers, concurrent with each other.  No
\* prober runs, so the Unreachability Set stays empty and no candidate is
\* skipped.
LedgerStep(p) ==
  \/ SelectNodeFail(p)
  \/ SelectNodeGetTarget(p)
  \/ SelectNodeContain(p)
  \/ SelectNodeGetCost(p)
  \/ SelectNodeGetCounter(p)
  \/ SelectNodeInsertCounter(p)
  \/ SelectNodeLoad(p)
  \/ SelectNodeScore(p)
  \/ SelectNodeAdd(p)
  \/ CancelWorkloadSub(p)
  \/ UpdateCostMetricsTs(p)

LedgerNext ==
  \/ ops < MaxOps /\ ops' = ops + 1 /\ CallStart(Procs)
  \/ \E p \in Procs : LedgerStep(p)

LedgerSpec == Init /\ [][LedgerNext]_vars

\* No call is in progress.
Quiescent == \A p \in Procs : frame[p].pc = "idle"

\* SeqSpec: one worker's calls, each running from its start to its return
\* with nothing else happening in between; the clock and the prober move
\* between calls.
SeqNext ==
  \/ /\ Quiescent
     /\ ops < MaxOps
     /\ ops' = ops + 1
     /\ CallStart({1}) \/ \E d \in Delays : AdvanceClock(d)
  \/ Quiescent /\ Start /\ UNCHANGED ops
  \/ Quiescent /\ (ProberTick \/ AwaitAll)
  \/ Quiescent /\ \E n \in Nodes : ProbeTryRemove(n)
  \/ Quiescent /\ \E n \in Nodes : Probe(n)
  \/ CallStep(1)

SeqSpec == Init /\ [][SeqNext]_vars

\* LiveSpec: the prober, the clock and the nodes' health, with telemetry
\* arriving, in behaviours that never end.  A probe meets health[node].
\* Telemetry arrives from TelemetryNodes; the health of FlakyNodes changes.
TelemetryNodes == {1, 2}
FlakyNodes == {1}

ProbeOf(node) ==
  \/ ProbeUnhealthy(node, health[node])
  \/ ProbeHealthyTs(node, health[node])

LiveClock == (\E d \in Delays : AdvanceClock(d)) /\ UNCHANGED ops

LiveHealth ==
  (\E n \in FlakyNodes, h \in HealthStates : SetHealth(n, h)) /\ UNCHANGED ops

LiveProber ==
  \/ ProberTick
  \/ AwaitAll
  \/ \E n \in Nodes : ProbeTryRemove(n)
  \/ \E n \in Nodes : ProbeOf(n)

\* An UpdateCostMetrics(n, _) call starts.
LiveUpdate(n) ==
  (\E a \in Aggs : UpdateCostMetricsStart(1, n, a)) /\ UNCHANGED ops

LiveNext ==
  \/ Start /\ UNCHANGED ops
  \/ LiveClock
  \/ LiveHealth
  \/ LiveProber
  \/ \E n \in TelemetryNodes : LiveUpdate(n)
  \/ UpdateCostMetricsTs(1)

\* The Go scheduler runs every goroutine that can run, and time passes.
LiveFairness ==
  /\ WF_vars(Start /\ UNCHANGED ops)
  /\ WF_vars(LiveProber)
  /\ WF_vars(LiveClock)
  /\ WF_vars(UpdateCostMetricsTs(1))

LiveSpec == Init /\ [][LiveNext]_vars /\ LiveFairness

\* LifeSpec: the lifecycle.  Start is called before Close runs (wg.Add
\* must happen before wg.Wait); any worker calls Close, any number of
\* times, concurrently with the other workers, the prober and its probes.
LifeCall ==
  \/ \E p \in Procs, n \in TelemetryNodes, a \in Aggs :
       UpdateCostMetricsStart(p, n, a)
  \/ \E d \in Delays : AdvanceClock(d)

LifeClose(p) ==
  \/ CloseEnter(p) /\ UNCHANGED ops
  \/ CloseOnceDo(p)
  \/ CloseWgWait(p)

LifeNext ==
  \/ ops < MaxOps /\ ops' = ops + 1 /\ LifeCall
  \/ closePc = "open" /\ Start /\ UNCHANGED ops
  \/ \E p \in Procs : LifeClose(p)
  \/ \E p \in Procs : UpdateCostMetricsTs(p)
  \/ ProberStep
  \/ \E n \in Nodes : Probe(n)

LifeSpec == Init /\ [][LifeNext]_vars

\* ScoreSpec: one worker's calls, one after the other, with no prober, for
\* a wider range of telemetry: the aggregations of Aggs and one that is
\* all zero.
ZeroAgg == [isNil |-> FALSE, ResponseTime |-> 0, ServiceTime |-> 0,
            TotalNQ |-> 0]
ScoreAggs == Aggs \cup {ZeroAgg}

ScoreCall ==
  \/ \E l \in NodeLists, c \in Costs : SelectNodeStart(1, l, c)
  \/ \E n \in Nodes, c \in Costs : CancelWorkloadStart(1, n, c)
  \/ \E n \in Nodes, a \in ScoreAggs : UpdateCostMetricsStart(1, n, a)
  \/ \E d \in Delays : AdvanceClock(d)

ScoreNext ==
  \/ Quiescent /\ ops < MaxOps /\ ops' = ops + 1 /\ ScoreCall
  \/ LedgerStep(1)

ScoreSpec == Init /\ [][ScoreNext]_vars

\* BalanceSpec: a client that holds a candidate list and a cost calls
\* SelectNode with them again and again, on a balancer that has no
\* telemetry, no prober and no other caller.  frame[2] is the client: it
\* holds the list and the cost, and worker 1 runs the calls.
BalanceLists == {<<a>> : a \in Nodes}
                  \cup {<<a, b>> : a \in Nodes, b \in Nodes}
                  \cup {<<a, b, c>> : a \in Nodes, b \in Nodes, c \in Nodes}

BalanceInit ==
  /\ metricsMap = [n \in Nodes |-> Nil]
  /\ metricsUpdateTs = [n \in Nodes |-> NoTs]
  /\ executingTaskTotalNQ = [n \in Nodes |-> NoCtr]
  /\ ctrVal = [c \in Nodes \X Procs |-> 0]
  /\ unreachableQueryNodes = {}
  /\ closeCh = FALSE
  /\ closePc = "open"
  /\ proberPc = "none"
  /\ probes = [n \in Nodes |-> "idle"]
  /\ tickPending = FALSE
  /\ now = StartTime
  /\ health = [n \in Nodes |-> "Healthy"]
  /\ \E l \in BalanceLists, c \in Costs :
       frame = [p \in Procs |->
                  IF p = 1 THEN IdleFrame
                  ELSE [IdleFrame EXCEPT !.op = "client", !.nodes = l,
                                         !.cost = c]]
  /\ ops = 0
  /\ stayed = [p \in Procs |-> {}]
  /\ skipped = [p \in Procs |-> {}]
  /\ dispatched = [n \in Nodes |-> 0]
  /\ outstanding = [n \in Nodes |-> [c \in Costs |-> 0]]
  /\ cancelRan = FALSE
  /\ balanced = TRUE
  /\ lastTickUnhealthy = {}
  /\ recoveredAt = [n \in Nodes |-> StartTime]

BalanceStep ==
  \/ SelectNodeFail(1)
  \/ SelectNodeGetTarget(1)
  \/ SelectNodeContain(1)
  \/ SelectNodeGetCost(1)
  \/ SelectNodeGetCounter(1)
  \/ SelectNodeInsertCounter(1)
  \/ SelectNodeLoad(1)
  \/ SelectNodeScore(1)
  \/ SelectNodeAdd(1)

BalanceNext ==
  \/ /\ ops < MaxOps
     /\ ops' = ops + 1
     /\ SelectNodeStart(1, frame[2].nodes, frame[2].cost)
  \/ BalanceStep

BalanceSpec == BalanceInit /\ [][BalanceNext]_vars

\* OverflowSpec: sequential SelectNode calls on a balancer in which
\* UpdateCostMetrics has cached an extreme aggregation for node 1 and an
\* ordinary one, or none, for each other node.  The extreme aggregations
\* have a large ServiceTime and a TotalNQ of a quarter of the int64 range
\* (1 + TotalNQ does not wrap around), of MaxInt64 (1 + TotalNQ wraps
\* around) and of MaxInt64 - 1 (it wraps around once 1 is in flight).
ExtremeAggs ==
  { [isNil |-> FALSE, ResponseTime |-> 50, ServiceTime |-> 16, TotalNQ |-> t] :
      t \in {(MaxInt64 + 1) \div 2, MaxInt64, MaxInt64 - 1} }

OverflowInit ==
  /\ \E x \in ExtremeAggs :
       metricsMap \in {f \in [Nodes -> Aggs \cup {Nil, x}] : f[1] = x}
  /\ metricsUpdateTs = [n \in Nodes |->
                          IF metricsMap[n] = Nil THEN NoTs ELSE StartTime]
  /\ executingTaskTotalNQ = [n \in Nodes |-> NoCtr]
  /\ ctrVal = [c \in Nodes \X Procs |-> 0]
  /\ unreachableQueryNodes = {}
  /\ closeCh = FALSE
  /\ closePc = "open"
  /\ proberPc = "none"
  /\ probes = [n \in Nodes |-> "idle"]
  /\ tickPending = FALSE
  /\ now = StartTime
  /\ health = [n \in Nodes |-> "Healthy"]
  /\ frame = [p \in Procs |-> IdleFrame]
  /\ ops = 0
  /\ stayed = [p \in Procs |-> {}]
  /\ skipped = [p \in Procs |-> {}]
  /\ dispatched = [n \in Nodes |-> 0]
  /\ outstanding = [n \in Nodes |-> [c \in Costs |-> 0]]
  /\ cancelRan = FALSE
  /\ balanced = TRUE
  /\ lastTickUnhealthy = {}
  /\ recoveredAt = [n \in Nodes |-> StartTime]

OverflowNext ==
  \/ /\ Quiescent
     /\ ops < MaxOps
     /\ ops' = ops + 1
     /\ \E l \in NodeLists, c \in Costs : SelectNodeStart(1, l, c)
  \/ BalanceStep

OverflowSpec == OverflowInit /\ [][OverflowNext]_vars

\* TelemetrySpec: worker 1's SelectNode calls concurrent with worker 2's
\* UpdateCostMetrics calls, on a balancer that cached OldAgg for some nodes
\* longer ago than the expire time.  The clock stands still, so whatever an
\* UpdateCostMetrics of this specification writes was written less than the
\* expire time ago; its aggregations (Aggs) differ from OldAgg.
OldAgg == [isNil |-> FALSE, ResponseTime |-> 80, ServiceTime |-> 40,
           TotalNQ |-> 0]

TelemetryInit ==
  /\ metricsMap \in [Nodes -> {Nil, OldAgg}]
  /\ metricsUpdateTs = [n \in Nodes |->
                          IF metricsMap[n] = Nil THEN NoTs ELSE Oldest]
  /\ executingTaskTotalNQ = [n \in Nodes |-> NoCtr]
  /\ ctrVal = [c \in Nodes \X Procs |-> 0]
  /\ unreachableQueryNodes = {}
  /\ closeCh = FALSE
  /\ closePc = "open"
  /\ proberPc = "none"
  /\ probes = [n \in Nodes |-> "idle"]
  /\ tickPending = FALSE
  /\ now = Horizon
  /\ health = [n \in Nodes |-> "Healthy"]
  /\ frame = [p \in Procs |-> IdleFrame]
  /\ ops = 0
  /\ stayed = [p \in Procs |-> {}]
  /\ skipped = [p \in Procs |-> {}]
  /\ dispatched = [n \in Nodes |-> 0]
  /\ outstanding = [n \in Nodes |-> [c \in Costs |-> 0]]
  /\ cancelRan = FALSE
  /\ balanced = TRUE
  /\ lastTickUnhealthy = {}
  /\ recoveredAt = [n \in Nodes |-> StartTime]

TelemetryNext ==
  \/ /\ ops < MaxOps
     /\ ops' = ops + 1
     /\ \/ \E l \in NodeLists, c \in Costs : SelectNodeStart(1, l, c)
        \/ \E n \in Nodes, a \in Aggs : UpdateCostMetricsStart(2, n, a)
  \/ BalanceStep
  \/ UpdateCostMetricsTs(2)

TelemetrySpec == TelemetryInit /\ [][TelemetryNext]_vars

\* ------------------------------------------------------------ claims

Range(l) == {l[i] : i \in 1..Len(l)}

\* Worker p's SelectNode is about to add to targetNode's counter and
\* return targetNode.
ReturnsNode(p) == frame[p].op = "select" /\ frame[p].pc = "add"

\* Worker p's SelectNode has left the loop with targetNode = -1 and is
\* about to return ServiceUnavailable.
ReturnsUnavailable(p) ==
  /\ frame[p].op = "select"
  /\ frame[p].pc = "loop"
  /\ frame[p].idx > Len(frame[p].nodes)
  /\ frame[p].targetNode = NoTarget

\* Every candidate of worker p's SelectNode has been in the Unreachability
\* Set ever since the call started (or it has no candidate).
AllUnreachable(p) ==
  /\ frame[p].op = "select"
  /\ Range(frame[p].nodes) \subseteq stayed[p]

\* C1 (as stated): at the moment a SelectNode call returns a node, the node
\* is not in the Unreachability Set, whatever the prober did meanwhile.
C1_ReturnedNotUnreachableAtReturn ==
  [][\A p \in Procs :
       (ReturnsNode(p) /\ frame'[p].pc = "idle")
         => frame[p].targetNode \notin unreachableQueryNodes']_vars

\* C1 (amended): SelectNode never returns a node that was in the
\* Unreachability Set from the start of the call to its return.
C1_ReturnedNotUnreachableThroughout ==
  \A p \in Procs :
    ReturnsNode(p) => frame[p].targetNode \notin stayed[p]

\* C1 witness: a call is about to return a node, having skipped a candidate
\* that has been unreachable ever since the call started.
C1_Witness ==
  \E p \in Procs :
    /\ ReturnsNode(p)
    /\ skipped[p] \cap stayed[p] # {}

\* C2: once all calls have returned and no CancelWorkload has run, the
\* in-flight counter of every node is the sum of the costs of the
\* selections that returned it.
C2_NoAddLost ==
  (Quiescent /\ ~cancelRan)
    => \A n \in Nodes : InFlight(n) = dispatched[n]

\* C3: a SelectNode that found a candidate outside the Unreachability Set
\* does not return ServiceUnavailable.
C3_NeverRefusesHealthyCandidate ==
  \A p \in Procs :
    ReturnsUnavailable(p) => Range(frame[p].nodes) \subseteq skipped[p]

\* The score SelectNode computes for node n in the current state.
ScoreNow(n) == calculateScore(n, metricsMap[n], InFlight(n))

\* The positions of list l whose node is reachable, and among them the
\* first one with the minimum score.
ReachablePositions(l) ==
  {i \in 1..Len(l) : l[i] \notin unreachableQueryNodes}

IsFirstMinimum(l, i) ==
  /\ i \in ReachablePositions(l)
  /\ \A j \in ReachablePositions(l) :
       /\ ScoreNow(l[i]) <= ScoreNow(l[j])
       /\ ScoreNow(l[j]) = ScoreNow(l[i]) => i <= j

\* C4: a SelectNode that ran without interference returns the first
\* reachable candidate with the minimum score.
C4_ReturnsFirstMinimum ==
  ReturnsNode(1) =>
    \E i \in 1..Len(frame[1].nodes) :
      /\ IsFirstMinimum(frame[1].nodes, i)
      /\ frame[1].targetNode = frame[1].nodes[i]

\* A step of a SelectNode of worker p all of whose candidates have been in
\* the Unreachability Set since the call started: the start of the call, or
\* a later step of it.
AllUnreachableStep(p) ==
  /\ frame'[p] # frame[p]
  /\ \/ AllUnreachable(p)
     \/ /\ frame[p].pc = "idle"
        /\ frame'[p].op = "select"
        /\ Range(frame'[p].nodes) \subseteq stayed'[p]

\* C5: a SelectNode whose candidates are all in the Unreachability Set (or
\* that has none) scores no candidate and returns ServiceUnavailable, and
\* none of its steps changes a counter, the telemetry cache or the
\* Unreachability Set.
C5_AllUnreachableFailsWithoutMutation ==
  /\ [](\A p \in Procs :
          AllUnreachable(p) =>
            /\ frame[p].pc = "loop"
            /\ frame[p].targetNode = NoTarget
            /\ frame[p].idx > Len(frame[p].nodes) => ReturnsUnavailable(p))
  /\ [][\A p \in Procs :
          AllUnreachableStep(p) => UNCHANGED balancerVars]_vars

\* C5 witness: a call with candidates, all unreachable throughout, is about
\* to return ServiceUnavailable.
C5_Witness ==
  \E p \in Procs :
    /\ AllUnreachable(p)
    /\ frame[p].nodes # <<>>
    /\ ReturnsUnavailable(p)

\* The in-flight cost owed to node n: the costs of the selections that
\* returned n and were not cancelled.
RECURSIVE SumOwed(_, _)
SumOwed(n, cs) ==
  IF cs = {} THEN 0
  ELSE LET c == CHOOSE x \in cs : TRUE
       IN c * outstanding[n][c] + SumOwed(n, cs \ {c})

Owed(n) == SumOwed(n, Costs)

\* C6: once all calls have returned, if every CancelWorkload(n, c) followed
\* a selection of n with cost c, every in-flight counter is what the
\* selections not cancelled added: each cancel undid its selection.
C6_CancelRestores ==
  (Quiescent /\ cancelRan /\ balanced)
    => \A n \in Nodes : InFlight(n) = Owed(n)

\* C7: as long as every CancelWorkload(n, c) followed a selection of n
\* with cost c, no in-flight counter is negative.
C7_InFlightNonNegative ==
  balanced => \A n \in Nodes : InFlight(n) >= 0

\* The step of UpdateCostMetrics(n, cost) that caches the aggregation.
UpdateCached(p) ==
  /\ frame[p].pc = "idle"
  /\ frame'[p].op = "update"

\* The step of UpdateCostMetrics(n, cost) that sets the time, and returns.
UpdateTimed(p) ==
  /\ frame[p].op = "update"
  /\ frame'[p].pc = "idle"

\* C8: UpdateCostMetrics(n, cost) sets n's cached aggregation to cost and
\* n's last-update time to the current time and changes nothing else; a
\* SelectNode scores n with the aggregation cached for n.
C8_UpdateFrame ==
  /\ [][\A p \in Procs :
          /\ UpdateCached(p) =>
               /\ metricsMap' = [metricsMap EXCEPT
                                   ![frame'[p].node] = frame'[p].agg]
               /\ UNCHANGED <<metricsUpdateTs, executingTaskTotalNQ, ctrVal,
                              unreachableQueryNodes>>
          /\ UpdateTimed(p) =>
               /\ metricsUpdateTs' = [metricsUpdateTs EXCEPT
                                        ![frame[p].node] = now]
               /\ UNCHANGED <<metricsMap, executingTaskTotalNQ, ctrVal,
                              unreachableQueryNodes>>]_vars
  /\ [](\A p \in Procs :
          (frame[p].op = "select"
             /\ frame[p].pc \in {"getctr", "insert", "load", "score"})
            => frame[p].lcost = metricsMap[frame[p].node])

\* C8 witness: after an UpdateCostMetrics(n, cost), a SelectNode is about
\* to score n with the aggregation and the time the update wrote.
C8_Witness ==
  \E p \in Procs :
    /\ frame[p].op = "select"
    /\ frame[p].pc = "score"
    /\ frame[p].lcost \in Aggs
    /\ metricsUpdateTs[frame[p].node] # NoTs

\* C9: after a tick, every node whose probe in the tick was unhealthy is in
\* the Unreachability Set; a SelectNode that examines it skips it, and one
\* with no other candidate returns ServiceUnavailable.
C9_UnhealthyProbeMakesUnreachable ==
  /\ [](lastTickUnhealthy \subseteq unreachableQueryNodes)
  /\ [][\A p \in Procs :
          (/\ frame[p].pc = "loop"
           /\ frame[p].idx <= Len(frame[p].nodes)
           /\ frame[p].nodes[frame[p].idx] \in lastTickUnhealthy
           /\ frame'[p] # frame[p])
            => /\ frame'[p] = [frame[p] EXCEPT !.idx = @ + 1]
               /\ frame[p].nodes[frame[p].idx] \in skipped'[p]]_vars
  /\ [](\A p \in Procs :
          (frame[p].op = "select" /\ Len(frame[p].nodes) = 1
             /\ Range(frame[p].nodes) \subseteq skipped[p])
            => ReturnsUnavailable(p))

\* C9 witness: a SelectNode whose only candidate was probed unhealthy in
\* the last tick has skipped it and is about to return ServiceUnavailable.
C9_Witness ==
  \E p \in Procs :
    /\ Len(frame[p].nodes) = 1
    /\ Range(frame[p].nodes) \subseteq lastTickUnhealthy
    /\ Range(frame[p].nodes) \subseteq skipped[p]
    /\ ReturnsUnavailable(p)

\* Node n is reachable again, and its last-update time (if it has one) is
\* not earlier than the time its health last became Healthy.
Recovered(n) ==
  /\ n \notin unreachableQueryNodes
  /\ metricsUpdateTs[n] # NoTs => metricsUpdateTs[n] >= recoveredAt[n]

ProberActs ==
  \/ unreachableQueryNodes' # unreachableQueryNodes
  \/ probes' # probes
  \/ proberPc' # proberPc
  \/ /\ \E n \in Nodes : /\ metricsUpdateTs'[n] # metricsUpdateTs[n]
                           /\ metricsUpdateTs'[n] = now
     /\ \A p \in Procs : ~UpdateTimed(p)

\* C11: concurrent and repeated Close calls close closeCh once and none
\* panics; once a Close call has returned, closeCh is closed, the prober
\* started before it has exited with no probe of its still running, and no
\* later step is a step of the prober or of a probe.
C11_CloseIdempotentAndSynchronous ==
  /\ [](\A p \in Procs : frame[p].pc # "panic")
  /\ [](closePc = "closed" =>
          /\ closeCh
          /\ proberPc \in {"none", "exit"}
          /\ \A n \in Nodes : probes[n] = "idle")
  /\ [][closePc = "closed" => ~ProberActs]_vars

\* C11 witness: the prober, which made a node unreachable, has exited, a
\* Close call has returned, and the second worker is in a Close call of
\* its own.
C11_Witness ==
  /\ closePc = "closed"
  /\ proberPc = "exit"
  /\ unreachableQueryNodes # {}
  /\ frame[2].op = "close"

\* Worker p's SelectNode has examined every candidate.
LoopDone(p) ==
  /\ frame[p].op = "select"
  /\ frame[p].pc = "loop"
  /\ frame[p].idx > Len(frame[p].nodes)

\* Node n has never been observed and has nothing in flight.
NeverObserved(n) ==
  /\ metricsMap[n] = Nil
  /\ metricsUpdateTs[n] = NoTs
  /\ InFlight(n) = 0

\* Node n has a cached aggregation with TotalNQ 0, written longer ago than
\* the expire time, and nothing in flight.
StaleIdle(n) ==
  /\ metricsMap[n] # Nil
  /\ metricsMap[n].TotalNQ = 0
  /\ isNodeCostMetricsTooOld(n)
  /\ InFlight(n) = 0

\* Worker 1's SelectNode has examined its two candidates: a never-observed
\* node first, a stale idle node second.
IdleShortcutCase ==
  /\ LoopDone(1)
  /\ Len(frame[1].nodes) = 2
  /\ NeverObserved(frame[1].nodes[1])
  /\ StaleIdle(frame[1].nodes[2])

\* C12 (as stated): with candidates [never-observed node, stale idle node
\* whose aggregation is {0, 0, 0}], SelectNode chooses the stale idle node,
\* with score 0.
C12_ZeroTelemetryShortcut ==
  (IdleShortcutCase /\ metricsMap[frame[1].nodes[2]] = ZeroAgg)
    => /\ frame[1].targetNode = frame[1].nodes[2]
       /\ frame[1].targetScore = 0

\* C12 (amended): with candidates [never-observed node, stale idle node],
\* SelectNode chooses the stale idle node, with score 0, when its
\* aggregation has a ResponseTime and a ServiceTime that are not 0; when
\* one of them is 0 the chosen score is 1.
C12_IdleShortcut ==
  IdleShortcutCase =>
    LET cost == metricsMap[frame[1].nodes[2]] IN
    IF cost.ResponseTime # 0 /\ cost.ServiceTime # 0
    THEN /\ frame[1].targetNode = frame[1].nodes[2]
         /\ frame[1].targetScore = 0
    ELSE frame[1].targetScore = 1

\* C12 witness: the idle shortcut has applied to the second candidate.
C12_Witness ==
  /\ IdleShortcutCase
  /\ metricsMap[frame[1].nodes[2]] \in Aggs
  /\ frame[1].nodes[2] # NoTarget
  /\ frame[1].targetScore = 0

\* C13: a client's sequential SelectNode calls with one candidate list and
\* one cost, without telemetry and cancels: the first call returns the
\* first candidate, no call returns a node a second time before every
\* candidate has been returned once, and between calls the in-flight
\* counters of any two candidates differ by at most the cost.
C13_LoadOnlyBalancing ==
  /\ (ReturnsNode(1) /\ \A n \in Nodes : dispatched[n] = 0)
       => frame[1].targetNode = frame[1].nodes[1]
  /\ (ReturnsNode(1) /\ dispatched[frame[1].targetNode] > 0)
       => \A n \in Range(frame[1].nodes) : dispatched[n] > 0
  /\ Quiescent
       => \A a \in Range(frame[2].nodes), b \in Range(frame[2].nodes) :
            InFlight(a) - InFlight(b) <= frame[2].cost

\* The nodes that have an entry in metricsUpdateTs.
Observed == {n \in Nodes : metricsUpdateTs[n] # NoTs}

\* C14: every node in the Unreachability Set has a telemetry-timestamp
\* entry, and a node without one is not being probed, whatever calls have
\* named it.
C14_UnreachableAreObserved ==
  /\ unreachableQueryNodes \subseteq Observed
  /\ \A n \in Nodes \ Observed : probes[n] = "idle"

\* C14 witness: a node is unreachable while another node, which SelectNode
\* has scored, has no telemetry-timestamp entry.
C14_Witness ==
  /\ unreachableQueryNodes # {}
  /\ \E n \in Nodes \ Observed : executingTaskTotalNQ[n] # NoCtr

\* C15: a CancelWorkload of a node that has no in-flight counter returns
\* at once and changes no counter, no telemetry and not the Unreachability
\* Set; the counter a later SelectNode creates for the node starts at 0.
C15_CancelUnknownIsNoOp ==
  /\ [][\A p \in Procs, n \in Nodes, c \in Costs :
          (CancelWorkloadStart(p, n, c) /\ executingTaskTotalNQ[n] = NoCtr)
            => /\ UNCHANGED balancerVars
               /\ frame'[p].pc = "idle"]_vars
  /\ [](\A p \in Procs :
          frame[p].pc = "insert"
            => ctrVal[<<frame[p].node, frame[p].lctr>>] = 0)

\* C15 witness: after a CancelWorkload, with no counter in the map yet, a
\* SelectNode is about to insert the first counter of a node.
C15_Witness ==
  /\ cancelRan
  /\ \A n \in Nodes : executingTaskTotalNQ[n] = NoCtr
  /\ \E p \in Procs : frame[p].pc = "insert"

\* The values the in-flight counters hold.
LedgerValues == {ctrVal[k] : k \in DOMAIN ctrVal}

\* The idle shortcut of calculateScore applies to node n with x in flight.
ShortcutApplies(n, x) ==
  /\ x = 0
  /\ metricsMap[n].TotalNQ = 0
  /\ isNodeCostMetricsTooOld(n)

\* Node n has an aggregation with ResponseTime and ServiceTime not 0, and
\* the idle shortcut applies to neither a nor b in flight.
LoadComparable(n, a, b) ==
  /\ metricsMap[n] # Nil
  /\ metricsMap[n].ResponseTime # 0
  /\ metricsMap[n].ServiceTime # 0
  /\ ~ShortcutApplies(n, a)
  /\ ~ShortcutApplies(n, b)

\* C16 (as stated): for every node, with its aggregation and the time as
\* they are, and for all values a < b that in-flight counters hold,
\* negative ones included, the score with a in flight is below the score
\* with b in flight (unless the idle shortcut applies); so it is without
\* telemetry.
C16_MonotoneLoad ==
  \A n \in Nodes, a \in LedgerValues, b \in LedgerValues :
    (a < b /\ (metricsMap[n] = Nil \/ LoadComparable(n, a, b)))
      => calculateScore(n, metricsMap[n], a)
           < calculateScore(n, metricsMap[n], b)

\* C16 (amended): the same, with telemetry, for the values a that do not
\* make 1 + TotalNQ + a negative and a ServiceTime above 0; with
\* 1 + TotalNQ + a negative the score is the maximum.
C16_MonotoneNonNegativeLoad ==
  \A n \in Nodes, a \in LedgerValues, b \in LedgerValues :
    /\ (a < b /\ metricsMap[n] = Nil)
         => calculateScore(n, Nil, a) < calculateScore(n, Nil, b)
    /\ (a < b /\ LoadComparable(n, a, b) /\ metricsMap[n].ServiceTime > 0
          /\ 1 + metricsMap[n].TotalNQ + a >= 0)
         => calculateScore(n, metricsMap[n], a)
              < calculateScore(n, metricsMap[n], b)
    /\ (LoadComparable(n, a, a) /\ metricsMap[n].ServiceTime > 0
          /\ 1 + metricsMap[n].TotalNQ + a < 0)
         => calculateScore(n, metricsMap[n], a) = MaxFloat64

\* C16 witness: a node has telemetry, and the counters hold a negative
\* value, 0 and a value above 0.
C16_Witness ==
  /\ \E n \in Nodes : metricsMap[n] \in Aggs
  /\ \E a \in LedgerValues : a < 0
  /\ \E b \in LedgerValues : b > 0

\* C17: SelectNode does not return a candidate with an extreme aggregation
\* when a candidate with an ordinary one is in the list, and a node whose
\* 1 + TotalNQ + in-flight has wrapped around to a negative value scores
\* the maximum.
C17_OverflowSafety ==
  /\ (ReturnsNode(1)
        /\ \E i \in 1..Len(frame[1].nodes) :
             metricsMap[frame[1].nodes[i]] \in Aggs)
       => metricsMap[frame[1].targetNode] \notin ExtremeAggs
  /\ \A n \in Nodes :
       (metricsMap[n] \in ExtremeAggs
          /\ Wrap(1 + metricsMap[n].TotalNQ + InFlight(n)) < 0)
         => ScoreNow(n) = MaxFloat64

\* The nodes a probe of which is running.
ProbesInFlight == {n \in Nodes : probes[n] \in {"run", "remove"}}

\* C18: no probe is running while the prober waits in its select, so none
\* is when a tick takes its snapshot, and the probes running are never
\* more than the nodes with a telemetry-timestamp entry.
C18_TicksNeverOverlap ==
  /\ [](proberPc # "await" => \A n \in Nodes : probes[n] = "idle")
  /\ [][(proberPc = "select" /\ proberPc' = "await")
          => ProbesInFlight = {}]_vars
  /\ [](/\ ProbesInFlight \subseteq Observed
        /\ Cardinality(ProbesInFlight) <= Cardinality(Observed))

\* C18 witness: a node that an earlier tick's probe made unreachable is
\* being probed again, by a later tick.
C18_Witness ==
  \E n \in unreachableQueryNodes : probes[n] = "run"

\* C19: a node enters the Unreachability Set only in the step in which a
\* probe of it completes unhealthy and leaves it only in the step in which
\* a probe of it completes healthy; no step of a SelectNode, CancelWorkload
\* or UpdateCostMetrics call changes the set; and a SelectNode skips, and
\* does not return, a candidate that has been in the set ever since the
\* call started.
C19_ReachabilityOnlyByProbes ==
  /\ [][\A n \in Nodes :
          /\ (n \notin unreachableQueryNodes /\ n \in unreachableQueryNodes')
               => (probes[n] = "run" /\ probes'[n] = "unhealthy")
          /\ (n \in unreachableQueryNodes /\ n \notin unreachableQueryNodes')
               => (probes[n] = "remove" /\ probes'[n] = "healthy")]_vars
  /\ [][frame' # frame => UNCHANGED unreachableQueryNodes]_vars
  /\ [][\A p \in Procs :
          (/\ frame[p].pc = "loop"
           /\ frame[p].idx <= Len(frame[p].nodes)
           /\ frame[p].nodes[frame[p].idx] \in stayed[p]
           /\ frame'[p] # frame[p])
            => frame'[p] = [frame[p] EXCEPT !.idx = @ + 1]]_vars
  /\ [](\A p \in Procs :
          (frame[p].op = "select" /\ frame[p].targetNode # NoTarget)
            => frame[p].targetNode \notin stayed[p])

\* C19 witness: a probe that found a member of the Unreachability Set
\* healthy is about to remove it.
C19_Witness ==
  \E n \in unreachableQueryNodes :
    /\ probes[n] = "remove"
    /\ metricsUpdateTs[n] = now

\* Worker p's SelectNode is about to score a candidate by the idle
\* shortcut of lines 150-152: score 0, for telemetry too old.
TakesIdleShortcut(p) ==
  /\ frame[p].op = "select"
  /\ frame[p].pc = "score"
  /\ frame[p].lcost # Nil
  /\ frame[p].lcost.ResponseTime # 0
  /\ frame[p].lcost.ServiceTime # 0
  /\ frame[p].lnq = 0
  /\ frame[p].lcost.TotalNQ = 0
  /\ isNodeCostMetricsTooOld(frame[p].node)

\* C20: SelectNode never applies the idle shortcut to an aggregation that
\* an UpdateCostMetrics call wrote less than the expire time ago: the
\* aggregation it scores by the shortcut is one cached before that
\* (under TelemetrySpec, OldAgg).
C20_TelemetryReadConsistently ==
  \A p \in Procs : TakesIdleShortcut(p) => frame[p].lcost \notin Aggs

====
